---- MODULE Spec2Model ----
(***************************************************************************)
(* read-primitives: extension traits that decode fixed-width primitives    *)
(* from any std::io::Read source.  Every decoder allocates a zeroed        *)
(* buffer of size_of::<T>() bytes, fills it with Read::read_exact and      *)
(* converts it with T::from_{ne,le,be}_bytes.                              *)
(*                                                                         *)
(* A value of a numeric type is modelled by its bit pattern: the set of    *)
(* bit positions (0 = least significant) that are 1.  The byte source is   *)
(* a byte sequence `data` with a read cursor `pos`; each call of its       *)
(* `read` may deliver any non-empty part of what was asked for, report     *)
(* end of input, or fail.                                                  *)
(***************************************************************************)
EXTENDS Integers, Sequences, FiniteSets, TLC

VARIABLES
    target_endian,        \* cfg(target_endian) of the build: "little" or "big"
    target_pointer_width, \* size_of::<usize>() of the build, in bytes
    data,                 \* the bytes the source holds, in the order it yields them
    pos,                  \* the source's read cursor: bytes of data already consumed
    pc,                   \* "idle", "read_exact" (inside a decoder), "done"
    op,                   \* the decoder being run: [fn, type]
    bytes,                \* the decoder's local buffer `bytes`
    filled,               \* how much of `bytes` read_exact has filled so far
    result,               \* what the last decoder returned
    start,                \* pos when the current decoder was called
    short,                \* some read of this call delivered less than asked for
    interrupted,          \* the source reported an Interrupted failure in this call
    readAfterInterrupted, \* the source was read again after an Interrupted failure
    failure,              \* first failure of another kind it reported in this call
    readAfterFailure,     \* the source was read again after that failure
    prefixSum,            \* sum of the widths of the decoders run so far, while all succeeded
    allOk,                \* every decoder completed so far has succeeded
    enc                   \* what the round-trip test encoded into data, or NoEnc

vars == <<target_endian, target_pointer_width, data, pos, pc, op, bytes, filled,
          result, start, short, interrupted, readAfterInterrupted, failure,
          readAfterFailure, prefixSum, allOk, enc>>

\* Longest source the model holds: one byte more than the widest type.
MaxLen == 17

Types == {"u16", "i16", "u32", "i32", "u64", "i64", "u128", "i128",
          "usize", "isize", "f32", "f64"}

Endians == {"little", "big"}

PointerWidths == {4, 8}

ErrorKinds == {"Other", "WouldBlock"}

Min(a, b) == IF a < b THEN a ELSE b

------------------------------------------------------------------------------
(* Results and values *)

Ok(v) == [ok |-> TRUE, val |-> v]

Err(e) == [ok |-> FALSE, err |-> e]

NoResult == [ok |-> FALSE, err |-> "none yet"]

Num(T, b) == [type |-> T, bits |-> b]

Bool(b) == [type |-> "bool", b |-> b]

Some(cp) == [type |-> "Option<char>", some |-> TRUE, cp |-> cp]

None == [type |-> "Option<char>", some |-> FALSE]

NoEnc == [type |-> "none"]

NoOp == [fn |-> "none", type |-> "none"]

------------------------------------------------------------------------------
(* Widths and conversions *)

\* slip: char read as a single byte
Mutant_size_of_char(T) ==
    CASE T \in {"u8", "bool", "char"} -> 1
      [] T \in {"u16", "i16"} -> 2
      [] T \in {"u32", "i32", "f32"} -> 4
      [] T \in {"u64", "i64", "f64"} -> 8
      [] T \in {"u128", "i128"} -> 16
      [] T \in {"usize", "isize"} -> target_pointer_width

\* slip: usize and isize taken to be 8 bytes on every target
Mutant_size_of_usize(T) ==
    CASE T \in {"u8", "bool"} -> 1
      [] T \in {"u16", "i16"} -> 2
      [] T \in {"u32", "i32", "f32", "char"} -> 4
      [] T \in {"u64", "i64", "f64", "usize", "isize"} -> 8
      [] T \in {"u128", "i128"} -> 16

size_of(T) ==
    CASE T \in {"u8", "bool"} -> 1
      [] T \in {"u16", "i16"} -> 2
      [] T \in {"u32", "i32", "f32", "char"} -> 4
      [] T \in {"u64", "i64", "f64"} -> 8
      [] T \in {"u128", "i128"} -> 16
      [] T \in {"usize", "isize"} -> target_pointer_width

Zeroed(n) == [i \in 1..n |-> 0]

BitsOfByte(b) == {k \in 0..7 : (b \div (2 ^ k)) % 2 = 1}

\* slip: the bytes taken most significant first
Mutant_from_le_bytes(b) ==
    UNION {{8 * (Len(b) - i) + k : k \in BitsOfByte(b[i])} : i \in 1..Len(b)}

\* first byte least significant
from_le_bytes(b) ==
    UNION {{8 * (i - 1) + k : k \in BitsOfByte(b[i])} : i \in 1..Len(b)}

\* slip: the bytes of each 16-bit half swapped, the halves left in place
Mutant_from_be_bytes(b) ==
    UNION {{8 * (IF i % 2 = 1 THEN i ELSE i - 2) + k : k \in BitsOfByte(b[i])}
             : i \in 1..Len(b)}

\* first byte most significant
from_be_bytes(b) ==
    UNION {{8 * (Len(b) - i) + k : k \in BitsOfByte(b[i])} : i \in 1..Len(b)}

\* slip: the host taken to be little-endian
Mutant_from_ne_bytes(b) == from_le_bytes(b)

from_ne_bytes(b) ==
    IF target_endian = "little" THEN from_le_bytes(b) ELSE from_be_bytes(b)

\* the bits p of v with lo <= p <= hi, as a number
Field(v, lo, hi) ==
    LET RECURSIVE Sum(_)
        Sum(p) == IF p > hi THEN 0
                  ELSE (IF p \in v THEN 2 ^ (p - lo) ELSE 0) + Sum(p + 1)
    IN Sum(lo)

\* slip: only the upper limit checked, surrogates let through
Mutant_from_u32(v) ==
    IF Field(v, 16, 31) > 16 THEN None ELSE Some(v)

\* char::from_u32: None for a surrogate or a value above char::MAX
from_u32(v) ==
    LET hi == Field(v, 16, 31)
        lo == Field(v, 0, 15)
    IN IF hi > 16 \/ (hi = 0 /\ lo >= 55296 /\ lo <= 57343)
       THEN None
       ELSE Some(v)

\* Ok(u8::from_ne_bytes(bytes))
Value_read_u8(b) == Num("u8", from_ne_bytes(b))

\* Ok(char::from_u32(u32::from_ne_bytes(bytes)))
Value_read_char(b) == from_u32(from_ne_bytes(b))

\* slip: only the byte 1 taken for true
Mutant_Value_read_bool(b) == Bool(from_ne_bytes(b) = {0})

\* Ok(u8::from_ne_bytes(bytes) != 0)
Value_read_bool(b) == Bool(from_ne_bytes(b) # {})

\* the value decoder o makes of the filled buffer b
Convert(o, b) ==
    CASE o.fn = "read_ne" -> Num(o.type, from_ne_bytes(b))
      [] o.fn = "read_le" -> Num(o.type, from_le_bytes(b))
      [] o.fn = "read_be" -> Num(o.type, from_be_bytes(b))
      [] o.fn = "read_u8" -> Value_read_u8(b)
      [] o.fn = "read_char" -> Value_read_char(b)
      [] o.fn = "read_bool" -> Value_read_bool(b)

------------------------------------------------------------------------------
(* The sources *)

Pad(p) == p \o [i \in 1..(MaxLen - Len(p)) |-> (131 + 29 * i) % 256]

Counting == [i \in 1..MaxLen |-> i]

PiBytes == <<24, 45, 68, 84, 251, 33, 9, 64>>

ShortPatterns ==
    { <<65, 0, 0, 0>>, <<0, 0, 0, 65>>,          \* 'A'
      <<0, 216, 0, 0>>, <<0, 0, 216, 0>>,        \* 0xD800
      <<255, 215, 0, 0>>, <<0, 0, 215, 255>>,    \* 0xD7FF
      <<255, 223, 0, 0>>, <<0, 0, 223, 255>>,    \* 0xDFFF
      <<0, 224, 0, 0>>, <<0, 0, 224, 0>>,        \* 0xE000
      <<255, 255, 16, 0>>, <<0, 16, 255, 255>>,  \* 0x10FFFF
      <<0, 0, 17, 0>>, <<0, 17, 0, 0>>,          \* 0x110000
      <<65, 0, 0, 128>>, <<128, 0, 0, 65>>,
      <<66, 0, 255, 1>>, <<1, 2, 2, 1>>, <<0, 128, 7, 7>> }

LongPatterns == { Counting, Pad(PiBytes) }

\* one byte short of, and exactly, the widths 8 and 16; and the longest
LongLens == {7, 8, 15, 16, MaxLen}

Prefixes(p) == {SubSeq(p, 1, n) : n \in 0..Len(p)}

ShortSources == UNION {Prefixes(p) : p \in ShortPatterns}

LongSources == {SubSeq(p, 1, n) : p \in LongPatterns, n \in LongLens}

Sources == ShortSources \cup LongSources

\* the sources that are also run against a failing reader
FaultSources ==
    UNION {Prefixes(p) : p \in {<<65, 0, 0, 0>>, <<0, 216, 0, 0>>, <<0, 17, 0, 0>>}}
      \cup {SubSeq(Counting, 1, n) : n \in {8, MaxLen}}

------------------------------------------------------------------------------
(* State after construction: a build, a source, no decoder called yet *)

InitCommon ==
    /\ target_endian \in Endians
    /\ target_pointer_width \in PointerWidths
    /\ pos = 0
    /\ pc = "idle"
    /\ op = NoOp
    /\ bytes = <<>>
    /\ filled = 0
    /\ result = NoResult
    /\ start = 0
    /\ short = FALSE
    /\ interrupted = FALSE
    /\ readAfterInterrupted = FALSE
    /\ failure = "none"
    /\ readAfterFailure = FALSE
    /\ prefixSum = 0
    /\ allOk = TRUE

Init ==
    /\ InitCommon
    /\ data \in FaultSources
    /\ enc = NoEnc

InitReliable ==
    /\ InitCommon
    /\ data \in Sources
    /\ enc = NoEnc

------------------------------------------------------------------------------
(* Calling a decoder: let mut bytes = [0u8; size_of::<T>()]; read_exact... *)

Call(f, T) ==
    /\ pc \in {"idle", "done"}
    /\ pc' = "read_exact"
    /\ op' = [fn |-> f, type |-> T]
    /\ bytes' = Zeroed(size_of(T))
    /\ filled' = 0
    /\ result' = NoResult
    /\ start' = pos
    /\ short' = FALSE
    /\ interrupted' = FALSE
    /\ readAfterInterrupted' = FALSE
    /\ failure' = "none"
    /\ readAfterFailure' = FALSE
    /\ UNCHANGED <<target_endian, target_pointer_width, data, pos, prefixSum,
                   allOk, enc>>

read_ne(T) ==
    /\ T \in Types
    /\ Call("read_ne", T)

read_le(T) ==
    /\ T \in Types
    /\ Call("read_le", T)

read_be(T) ==
    /\ T \in Types
    /\ Call("read_be", T)

read_u8 ==
    /\ pc # "read_exact"
    /\ Call("read_u8", "u8")

read_char ==
    /\ pc # "read_exact"
    /\ Call("read_char", "char")

read_bool ==
    /\ pc # "read_exact"
    /\ Call("read_bool", "bool")

------------------------------------------------------------------------------
(* Read::read_exact: read until the buffer is full; Ok(0) is the end of    *)
(* input; an Interrupted failure is retried; any other failure is          *)
(* returned.  The decoder returns the failure with `?`, or converts.       *)

\* The decoder returns r.
Return(r) ==
    /\ pc' = "done"
    /\ result' = r
    /\ prefixSum' = IF allOk /\ r.ok THEN prefixSum + Len(bytes) ELSE 0
    /\ allOk' = (allOk /\ r.ok)

\* read_exact goes round its loop again.
Continue ==
    /\ pc' = pc
    /\ UNCHANGED <<result, prefixSum, allOk>>

\* What every call of source.read records.
ReadCalled ==
    /\ readAfterInterrupted' = (readAfterInterrupted \/ interrupted)
    /\ readAfterFailure' = (readAfterFailure \/ failure # "none")

\* slip: a single read instead of read_exact, a short read taken for the end
Mutant_source_read_ok ==
    /\ pc = "read_exact"
    /\ ReadCalled
    /\ \E n \in 1..Min(Len(bytes) - filled, Len(data) - pos) :
          /\ bytes' = [i \in 1..Len(bytes) |->
                          IF i > filled /\ i <= filled + n
                          THEN data[pos + (i - filled)] ELSE bytes[i]]
          /\ filled' = filled + n
          /\ pos' = pos + n
          /\ short' = (short \/ n < Len(bytes) - filled)
          /\ IF filled + n = Len(bytes)
             THEN Return(Ok(Convert(op, bytes')))
             ELSE Return(Err("UnexpectedEof"))
    /\ UNCHANGED <<target_endian, target_pointer_width, data, op, start,
                   interrupted, failure, enc>>

\* source.read(buf) = Ok(n), 0 < n <= buf.len()
source_read_ok ==
    /\ pc = "read_exact"
    /\ ReadCalled
    /\ \E n \in 1..Min(Len(bytes) - filled, Len(data) - pos) :
          /\ bytes' = [i \in 1..Len(bytes) |->
                          IF i > filled /\ i <= filled + n
                          THEN data[pos + (i - filled)] ELSE bytes[i]]
          /\ filled' = filled + n
          /\ pos' = pos + n
          /\ short' = (short \/ n < Len(bytes) - filled)
          /\ IF filled + n = Len(bytes)
             THEN Return(Ok(Convert(op, bytes')))
             ELSE Continue
    /\ UNCHANGED <<target_endian, target_pointer_width, data, op, start,
                   interrupted, failure, enc>>

\* slip: the end of input not reported, the zero-padded buffer converted
Mutant_source_read_eof ==
    /\ pc = "read_exact"
    /\ pos = Len(data)
    /\ ReadCalled
    /\ Return(Ok(Convert(op, bytes)))
    /\ UNCHANGED <<target_endian, target_pointer_width, data, pos, op, bytes,
                   filled, start, short, interrupted, failure, enc>>

\* source.read(buf) = Ok(0): the source is exhausted
source_read_eof ==
    /\ pc = "read_exact"
    /\ pos = Len(data)
    /\ ReadCalled
    /\ Return(Err("UnexpectedEof"))
    /\ UNCHANGED <<target_endian, target_pointer_width, data, pos, op, bytes,
                   filled, start, short, interrupted, failure, enc>>

\* source.read(buf) = Err(e), e.kind() == Interrupted: read_exact reads again
source_read_interrupted ==
    /\ pc = "read_exact"
    /\ ReadCalled
    /\ interrupted' = TRUE
    /\ Continue
    /\ UNCHANGED <<target_endian, target_pointer_width, data, pos, op, bytes,
                   filled, start, short, failure, enc>>

\* slip: the failure wrapped into an error of the decoder's own
Mutant_source_read_error ==
    /\ pc = "read_exact"
    /\ ReadCalled
    /\ \E e \in ErrorKinds :
          /\ failure' = IF failure = "none" THEN e ELSE failure
          /\ Return(Err("Other"))
    /\ UNCHANGED <<target_endian, target_pointer_width, data, pos, op, bytes,
                   filled, start, short, interrupted, enc>>

\* source.read(buf) = Err(e) of any other kind: returned as it is
source_read_error ==
    /\ pc = "read_exact"
    /\ ReadCalled
    /\ \E e \in ErrorKinds :
          /\ failure' = IF failure = "none" THEN e ELSE failure
          /\ Return(Err(e))
    /\ UNCHANGED <<target_endian, target_pointer_width, data, pos, op, bytes,
                   filled, start, short, interrupted, enc>>

Next ==
    \/ \E T \in Types : read_ne(T)
    \/ \E T \in Types : read_le(T)
    \/ \E T \in Types : read_be(T)
    \/ read_u8
    \/ read_char
    \/ read_bool
    \/ source_read_ok
    \/ source_read_eof
    \/ source_read_interrupted
    \/ source_read_error

Spec == Init /\ [][Next]_vars

\* A source whose read never fails (a slice, a Cursor).
NextReliable ==
    \/ \E T \in Types : read_ne(T)
    \/ \E T \in Types : read_le(T)
    \/ \E T \in Types : read_be(T)
    \/ read_u8
    \/ read_char
    \/ read_bool
    \/ source_read_ok
    \/ source_read_eof

SpecReliable == InitReliable /\ [][NextReliable]_vars

------------------------------------------------------------------------------
(* The crate's tests: encode a value with to_{ne,le,be}_bytes, decode the  *)
(* slice with the decoder of the same type and ordering, compare.  The     *)
(* tests use 37; here the value ranges over TestValues.                    *)

\* byte i (0 = least significant) of the bit pattern v
ByteOf(v, i) == Field(v, 8 * i, 8 * i + 7)

to_le_bytes(v, n) == [i \in 1..n |-> ByteOf(v, i - 1)]

to_be_bytes(v, n) == [i \in 1..n |-> ByteOf(v, n - i)]

to_ne_bytes(v, n) ==
    IF target_endian = "little" THEN to_le_bytes(v, n) ELSE to_be_bytes(v, n)

\* the bit pattern written as hexadecimal digits, most significant first
HexBits(d) ==
    UNION {{4 * (Len(d) - i) + k : k \in BitsOfByte(d[i])} : i \in 1..Len(d)}

Thirty7(T) ==
    CASE T = "f32" -> HexBits(<<4, 2, 1, 4, 0, 0, 0, 0>>)
      [] T = "f64" -> HexBits(<<4, 0, 4, 2, 8, 0, 0, 0, 0, 0, 0, 0, 0, 0, 0, 0>>)
      [] OTHER -> {0, 2, 5}

PiBits == HexBits(<<4, 0, 0, 9, 2, 1, 15, 11, 5, 4, 4, 4, 2, 13, 1, 8>>)

TestValues(T) ==
    LET w == 8 * size_of(T)
    IN  IF T = "u8" THEN SUBSET (0..7)
        ELSE { Thirty7(T), {}, 0..(w - 1), {w - 1}, 0..(w - 2),
               {p \in 0..(w - 1) : p % 3 = 0},
               {p \in 0..(w - 1) : p % 8 <= (p \div 8) % 8} }
             \cup (IF T = "f64" THEN {PiBits} ELSE {})

Orders == {"ne", "le", "be"}

Encode(e) ==
    CASE e.order = "ne" -> to_ne_bytes(e.bits, size_of(e.type))
      [] e.order = "le" -> to_le_bytes(e.bits, size_of(e.type))
      [] e.order = "be" -> to_be_bytes(e.bits, size_of(e.type))

InitRoundTrip ==
    /\ InitCommon
    /\ \E T \in Types \cup {"u8"} :
         \E o \in (IF T = "u8" THEN {"ne"} ELSE Orders) :
           \E v \in TestValues(T) :
              enc = [type |-> T, order |-> o, bits |-> v]
    /\ data = Encode(enc)

test_read_ne ==
    /\ pc = "idle" /\ enc.type \in Types /\ enc.order = "ne"
    /\ read_ne(enc.type)

test_read_le ==
    /\ pc = "idle" /\ enc.type \in Types /\ enc.order = "le"
    /\ read_le(enc.type)

test_read_be ==
    /\ pc = "idle" /\ enc.type \in Types /\ enc.order = "be"
    /\ read_be(enc.type)

test_read_u8 ==
    /\ pc = "idle" /\ enc.type = "u8"
    /\ read_u8

NextRoundTrip ==
    \/ test_read_ne
    \/ test_read_le
    \/ test_read_be
    \/ test_read_u8
    \/ source_read_ok

SpecRoundTrip == InitRoundTrip /\ [][NextRoundTrip]_vars

------------------------------------------------------------------------------
(* The properties *)

\* N: the byte width of a decoder's target type, as documented
Width(o) ==
    CASE o.type \in {"u8", "bool"} -> 1
      [] o.type \in {"u16", "i16"} -> 2
      [] o.type \in {"u32", "i32", "f32", "char"} -> 4
      [] o.type \in {"u64", "i64", "f64"} -> 8
      [] o.type \in {"u128", "i128"} -> 16
      [] o.type \in {"usize", "isize"} -> target_pointer_width

\* the bytes of the original sequence at offsets [start, start + N)
Window == SubSeq(data, start + 1, start + Width(op))

Available == Len(data) - start

Reverse(b) == [i \in 1..Len(b) |-> b[Len(b) + 1 - i]]

\* C1: encoding a value under an ordering and decoding the bytes with the
\* decoder of that type and ordering returns Ok of the same bit pattern
\* (every supported type, every ordering, every byte for read_u8).
RoundTrip ==
    pc = "done" => result = Ok(Num(enc.type, enc.bits))

RoundTripWitness ==
    /\ pc = "done"
    /\ enc = [type |-> "f64", order |-> "be", bits |-> PiBits]
    /\ target_endian = "little"
    /\ data = Reverse(PiBytes)
    /\ result = Ok(Num("f64", PiBits))

\* C2: a decoder of width N run on a source holding exactly N bytes succeeds
\* and leaves it exhausted; on a source holding exactly N - 1 bytes it
\* returns the unexpected-end-of-input error, never an Ok value.
ExactConsumption ==
    pc = "done" =>
        /\ Available = Width(op) => result.ok /\ pos = Len(data)
        /\ Available = Width(op) - 1 => result = Err("UnexpectedEof")

ExactConsumptionWitness ==
    /\ pc = "done"
    /\ op = [fn |-> "read_be", type |-> "u128"]
    /\ Available = 15
    /\ filled = 15
    /\ result = Err("UnexpectedEof")

\* C3: a decoder of width N advances the source by exactly N when it
\* succeeds, and by the number of bytes actually read, fewer than N, when it
\* fails; it never consumes more than N bytes.
CursorAdvance ==
    /\ pc = "read_exact" => pos - start = filled /\ filled < Width(op)
    /\ pc = "done" /\ result.ok => pos - start = Width(op)
    /\ pc = "done" /\ ~result.ok => pos - start = filled /\ filled < Width(op)

CursorAdvanceWitness ==
    /\ pc = "done"
    /\ op.fn = "read_char"
    /\ result = Err("WouldBlock")
    /\ Available = 4
    /\ pos - start = 3

\* the native-order u32 of the window, when its top byte is 0 (else -1)
WindowLow24 ==
    LET b == Window
    IN  IF target_endian = "little"
        THEN (IF b[4] # 0 THEN -1 ELSE b[1] + 256 * b[2] + 65536 * b[3])
        ELSE (IF b[1] # 0 THEN -1 ELSE b[4] + 256 * b[3] + 65536 * b[2])

IsScalar(u) == (0 <= u /\ u <= 55295) \/ (57344 <= u /\ u <= 1114111)

\* C4: read_char returns an error only when fewer than 4 bytes could be read
\* or a read failed; with 4 bytes read it returns Ok: Some(c) with c's code
\* point the native-order u32 exactly when that is a Unicode scalar value,
\* None when it is a surrogate or above 0x10FFFF.
CharOutcome ==
    pc = "done" /\ op.fn = "read_char" =>
        /\ ~result.ok => (filled < 4 /\ (Available < 4 \/ failure # "none"))
        /\ filled = 4 =>
             /\ result.ok
             /\ result.val.some = IsScalar(WindowLow24)
             /\ result.val.some =>
                  /\ result.val.cp \subseteq 0..23
                  /\ Field(result.val.cp, 0, 23) = WindowLow24

CharOutcomeWitness ==
    /\ pc = "done"
    /\ op.fn = "read_char"
    /\ result = Ok(None)
    /\ WindowLow24 = 55296

\* C5 as stated: whenever a read of the source reports a failure of any kind,
\* an Interrupted one included, the decoder fails with that same failure and
\* does not read the source again.
ErrorForwardingAnyKind ==
    pc = "done" =>
        /\ interrupted => result = Err("Interrupted") /\ ~readAfterInterrupted
        /\ failure # "none" => result = Err(failure) /\ ~readAfterFailure

\* C5 amended: whenever a read of the source reports a failure of a kind
\* other than Interrupted, the decoder fails at once with that same failure,
\* unmodified, and does not read the source again; the only error it adds is
\* the unexpected end of input; an Interrupted failure is never returned.
ErrorForwarding ==
    /\ failure # "none" =>
          pc = "done" /\ result = Err(failure) /\ ~readAfterFailure
    /\ pc = "done" /\ ~result.ok =>
          \/ result.err = "UnexpectedEof" /\ failure = "none" /\ pos = Len(data)
          \/ result.err = failure /\ failure \in ErrorKinds

ErrorForwardingWitness ==
    /\ pc = "done"
    /\ failure = "WouldBlock"
    /\ result = Err("WouldBlock")
    /\ interrupted
    /\ filled = 2

\* C6: read_le returns the bit pattern whose base-256 digit i is the i-th
\* byte read (first byte least significant), read_be the one whose digit
\* N-1-i is the i-th byte (first byte most significant), within 8N bits;
\* the bytes 24,45,68,84,251,33,9,64 read by read_le_f64 give
\* 0x400921FB54442D18.
FixedOrderValue ==
    pc = "done" /\ result.ok /\ op.fn \in {"read_le", "read_be"} =>
        LET N == Width(op)
            b == Window
            v == result.val.bits
        IN  /\ result.val.type = op.type
            /\ v \subseteq 0..(8 * N - 1)
            /\ \A i \in 0..(N - 1) :
                  Field(v, 8 * i, 8 * i + 7) =
                      IF op.fn = "read_le" THEN b[i + 1] ELSE b[N - i]
            /\ N = 2 =>
                  Field(v, 0, 15) =
                      IF op.fn = "read_le" THEN b[1] + 256 * b[2]
                                           ELSE b[2] + 256 * b[1]
            /\ (op = [fn |-> "read_le", type |-> "f64"] /\ b = PiBytes) =>
                  v = PiBits

FixedOrderValueWitness ==
    /\ pc = "done"
    /\ op = [fn |-> "read_le", type |-> "f64"]
    /\ result = Ok(Num("f64", PiBits))
    /\ Window = PiBytes

\* C7: read_be of a byte sequence gives what read_le gives of the reversed
\* sequence, and the other way round; the two differ on every sequence that
\* is not its own reversal; 1,2,3,4 as u32 is 0x04030201 little-endian and
\* 0x01020304 big-endian.
OrderingDistinction ==
    pc = "done" /\ result.ok /\ op.fn \in {"read_le", "read_be"} =>
        LET b == Window
            v == result.val.bits
        IN  /\ op.fn = "read_be" =>
                /\ v = from_le_bytes(Reverse(b))
                /\ b # Reverse(b) => v # from_le_bytes(b)
            /\ op.fn = "read_le" =>
                /\ v = from_be_bytes(Reverse(b))
                /\ b # Reverse(b) => v # from_be_bytes(b)
            /\ (op.type = "u32" /\ b = <<1, 2, 3, 4>>) =>
                  v = IF op.fn = "read_le"
                      THEN HexBits(<<0, 4, 0, 3, 0, 2, 0, 1>>)
                      ELSE HexBits(<<0, 1, 0, 2, 0, 3, 0, 4>>)

OrderingDistinctionWitness ==
    /\ pc = "done"
    /\ op = [fn |-> "read_be", type |-> "u32"]
    /\ result = Ok(Num("u32", HexBits(<<0, 1, 0, 2, 0, 3, 0, 4>>)))
    /\ Window = <<1, 2, 3, 4>>

\* C8: read_bool on a source with at least one byte consumes exactly one
\* byte and returns Ok(false) if and only if that byte is 0, Ok(true) for
\* every other byte; on an empty source it returns an error.
BooleanMapping ==
    pc = "done" /\ op.fn = "read_bool" =>
        IF Available >= 1
        THEN /\ pos = start + 1
             /\ result = Ok(Bool(data[start + 1] # 0))
        ELSE /\ ~result.ok
             /\ pos = start

BooleanMappingWitness ==
    /\ pc = "done"
    /\ op.fn = "read_bool"
    /\ result = Ok(Bool(TRUE))
    /\ data[start + 1] = 66

\* C9: while every decoder so far has succeeded, the k-th one decodes exactly
\* the bytes at offsets [S, S + N) of the original sequence, S being the sum
\* of the widths of the k - 1 before it, whatever those were, and leaves the
\* source at S + N.
SequentialComposition ==
    pc = "done" /\ allOk =>
        LET N == Width(op)
            S == prefixSum - N
        IN  /\ start = S
            /\ pos = S + N
            /\ result = Ok(Convert(op, SubSeq(data, S + 1, S + N)))

SequentialCompositionWitness ==
    /\ pc = "done"
    /\ allOk
    /\ op = [fn |-> "read_le", type |-> "u128"]
    /\ start = 1
    /\ pos = 17
    /\ prefixSum = 17

\* C10: however the source splits its bytes over its reads, a decoder of
\* width N returns the value of the N bytes and consumes those N; it fails
\* with the short-read error only when the source is exhausted before N
\* bytes have come, never because a read brought fewer bytes than asked for.
ChunkingIndependence ==
    pc = "done" =>
        IF Available >= Width(op)
        THEN /\ result = Ok(Convert(op, Window))
             /\ pos = start + Width(op)
        ELSE /\ result = Err("UnexpectedEof")
             /\ pos = Len(data)

ChunkingIndependenceWitness ==
    /\ pc = "done"
    /\ short
    /\ op = [fn |-> "read_ne", type |-> "u64"]
    /\ result.ok
    /\ Available > 8

====
